---- MODULE Spec2Model ----
(***************************************************************************)
(* TodoNexus: the three tables of the migration with their row-level       *)
(* security policies, and the useTasks hook that reads and writes them.    *)
(*                                                                         *)
(* Storage statements are atomic (one action each).  A hook call that      *)
(* awaits more than one statement is one action per statement, with the    *)
(* call kept in flight in between, so calls of several users (and several  *)
(* calls of one user) interleave.                                          *)
(*                                                                         *)
(* Every user runs the same hook code in a session of their own.  One      *)
(* session is under observation: the one of `user`.  Its task list (mem)   *)
(* and its fetchTasks calls are state; of the other sessions the           *)
(* statements they send are modelled, and their task lists, which nothing  *)
(* but their own fetchTasks reads or writes, are not part of the state.    *)
(*                                                                         *)
(* Six specifications share the actions: Spec (the mutations of every      *)
(* user and the refreshes of the observed hook, no change feed, no query   *)
(* failing), SessionSpec (the observed hook from mount on, its user        *)
(* changing, queries that can fail), RefreshSpec (the mounted hook with    *)
(* the change feed handing over notifications and queries that can fail),  *)
(* ProfilesSpec (the profiles table and shareTask's lookups in it),        *)
(* IndexSpec (the Index page's share modal over the mounted hook) and      *)
(* CardSpec (the status buttons of its cards).                             *)
(*                                                                         *)
(* Columns kept: tasks(id, user_id, title, status),                        *)
(* task_shares(task_id, shared_by_user_id, shared_with_user_id,            *)
(* permission), profiles(id, email).  description, due_date and priority   *)
(* are written and read exactly like title and status and are left out;    *)
(* timestamps and the generated task_shares.id are left out.  tasks.id is  *)
(* never in an update.                                                     *)
(***************************************************************************)
EXTENDS Integers, Sequences, FiniteSets, Bags, TLC

\* ------------------------------------------------------------- bounds
NumUsers == 2      \* identities (each with its profile)
MaxTasks == 2      \* task ids ever generated
MaxOps   == 2      \* hook calls started after the initial state

\* ------------------------------------------------------------- domains
Users    == {"u" \o ToString(i) : i \in 1..NumUsers}
TaskIds  == 1..MaxTasks
Titles   == {"", "Write report"}
Statuses == {"pending", "completed"}   \* two of the three values of the CHECK
Permissions == {"view", "edit"}
Fields   == {"user_id", "title", "status"}

\* handle_new_user: one profile per identity, carrying the identity's email
\* (auth.users holds each email once).
EmailOf(u) == u \o "@example.com"
NewUserProfiles == {[id |-> u, email |-> EmailOf(u)] : u \in Users}
UnknownEmail == "nobody@nowhere.test"
Emails == {EmailOf(u) : u \in Users} \cup {UnknownEmail}

\* useAuth().user is null: the session's requests carry no identity and
\* auth.uid() is NULL.  No column ever holds this value, so a policy's
\* comparison with it is never true, as with NULL.
NoUser == "none"
Callers == Users \cup {NoUser}

\* Partial<Task>, the updates argument of updateTask: a value for some of the
\* columns.  The updates enumerated supply one column each.
FieldValues(f) ==
    IF f = "user_id" THEN Users ELSE IF f = "title" THEN Titles ELSE Statuses
PartialTasks ==
    {u \in UNION {[{f} -> FieldValues(f)] : f \in Fields} : TRUE}

VARIABLES
    profiles,     \* table profiles: a set of rows [id, email]
    tasks,        \* table tasks: id -> [user_id, title, status]
    createdBy,    \* history: id -> the caller whose createTask inserted it
    shares,       \* table task_shares: a bag of rows
    nextId,       \* ids generated so far (gen_random_uuid never repeats)
    shareCalls,   \* shareTask calls between the profile query and the insert
    fetchCalls,   \* fetchTasks calls in flight
    user,         \* useAuth().user of the session under observation
    mem,          \* useState tasks of that session's hook
    lastOp,       \* history: the last mutating statement and its outcome
    nops,         \* hook calls started
    hook,         \* that hook instance: "rendered", "mounted" or "unmounted"
    channels,     \* its subscribed 'tasks-changes' channels: a bag of [for]
    events,       \* postgres_changes notifications not yet handed to it
    loading,      \* useState loading of that hook
    toasts,       \* the destructive toasts fetchTasks has shown, in order
    page          \* the Index page of that session: its state and its
                  \* handleShareTask call

vars == <<profiles, tasks, createdBy, shares, nextId, shareCalls, fetchCalls,
          user, mem, lastOp, nops, hook, channels, events, loading, toasts,
          page>>

storage == <<tasks, createdBy, shares, nextId>>

\* What a mutation call leaves alone besides the tables.
hookView == <<hook, channels, loading, toasts>>

\* ------------------------------------------------------------- helpers
Min(S) == CHOOSE x \in S : \A y \in S : x <= y

\* The rows of a query result, as the sequence the client receives: the
\* tasks with ids in S, in id (insertion) order.
RECURSIVE RowsOf(_)
RowsOf(S) ==
    IF S = {} THEN <<>>
    ELSE LET id == Min(S) IN <<tasks[id]>> \o RowsOf(S \ {id})

\* .update(updates): the supplied columns replace the row's, the rest stay.
ApplyUpdates(row, updates) ==
    [f \in DOMAIN row |-> IF f \in DOMAIN updates THEN updates[f] ELSE row[f]]

ShareRows == BagToSet(shares)

\* ------------------------------------------------------------- policies
\* auth.uid() is the caller's identity id.

\* "Users can view all profiles"
ProfilesSelectUsing(uid, p) == TRUE

\* "Users can update own profile": no WITH CHECK, so the new row is checked
\* against the same expression.
ProfilesUpdateUsing(uid, p) == uid = p.id

\* "Users can insert own profile"
ProfilesInsertCheck(uid, p) == uid = p.id

VisibleProfiles(uid) == {p \in profiles : ProfilesSelectUsing(uid, p)}

\* "Users can view task shares for their tasks"
SharesSelectUsing(uid, s) ==
    uid = s.shared_by_user_id \/ uid = s.shared_with_user_id

\* task_shares as a sub-select inside a policy of tasks sees it: row-level
\* security applies to the caller's reads there too.
VisibleShares(uid) == {s \in ShareRows : SharesSelectUsing(uid, s)}

\* "Users can view own tasks"
TasksSelectOwn(uid, row) == uid = row.user_id

\* Mutant: the share must be an edit share (the test of the UPDATE policy).
TasksSelectSharedEditOnly(uid, row) ==
    \E s \in VisibleShares(uid) :
        /\ s.task_id = row.id
        /\ s.shared_with_user_id = uid
        /\ s.permission = "edit"

\* "Users can view shared tasks"
TasksSelectShared(uid, row) ==
    \E s \in VisibleShares(uid) :
        s.task_id = row.id /\ s.shared_with_user_id = uid

\* Permissive policies of one command are OR-ed.
TasksSelectUsing(uid, row) ==
    TasksSelectOwn(uid, row) \/ TasksSelectShared(uid, row)

VisibleTasks(uid) == {id \in DOMAIN tasks : TasksSelectUsing(uid, tasks[id])}

\* "Users can insert own tasks"
TasksInsertCheck(uid, row) == uid = row.user_id

\* "Users can update own tasks"
TasksUpdateOwn(uid, row) == uid = row.user_id

\* Mutant: any share will do (the test of the SELECT policy).
TasksUpdateEditAnyPermission(uid, row) ==
    \E s \in VisibleShares(uid) :
        s.task_id = row.id /\ s.shared_with_user_id = uid

\* "Users can update shared tasks with edit permission"
TasksUpdateEdit(uid, row) ==
    \E s \in VisibleShares(uid) :
        /\ s.task_id = row.id
        /\ s.shared_with_user_id = uid
        /\ s.permission = "edit"

\* USING of the UPDATE policies: which existing rows the statement may touch.
TasksUpdateUsing(uid, row) ==
    TasksUpdateOwn(uid, row) \/ TasksUpdateEdit(uid, row)

\* The UPDATE policies give no WITH CHECK, so PostgreSQL checks the new row
\* against the same USING expressions; the statement reads the table (its
\* WHERE), so the new row must pass the SELECT policies as well.
TasksUpdateCheck(uid, new) ==
    /\ TasksUpdateOwn(uid, new) \/ TasksUpdateEdit(uid, new)
    /\ TasksSelectUsing(uid, new)

\* Mutant: whoever may update may delete.
TasksDeleteUsingAsUpdate(uid, row) ==
    uid = row.user_id \/ TasksUpdateEdit(uid, row)

\* "Users can delete own tasks"
TasksDeleteUsing(uid, row) == uid = row.user_id

\* Mutant: an edit grantee may share the task on.
SharesInsertCheckOrEdit(uid, s) ==
    \E id \in VisibleTasks(uid) :
        /\ tasks[id].id = s.task_id
        /\ tasks[id].user_id = uid \/ TasksUpdateEdit(uid, tasks[id])

\* "Users can create shares for their own tasks"
SharesInsertCheck(uid, s) ==
    \E id \in VisibleTasks(uid) :
        tasks[id].id = s.task_id /\ tasks[id].user_id = uid

\* "Users can delete shares for their own tasks"
SharesDeleteUsing(uid, s) ==
    \E id \in VisibleTasks(uid) :
        tasks[id].id = s.task_id /\ tasks[id].user_id = uid

\* Mutant: the table has no UNIQUE constraint.
SharesUniqueOff(s) == TRUE

\* UNIQUE(task_id, shared_with_user_id)
SharesUniqueOk(s) ==
    \A r \in ShareRows :
        ~(r.task_id = s.task_id /\ r.shared_with_user_id = s.shared_with_user_id)

\* task_shares.task_id REFERENCES tasks(id)
SharesTaskFkOk(s) == s.task_id \in DOMAIN tasks

\* Mutant: the foreign key does not cascade.
CascadeOff(id) == shares

\* task_shares.task_id ... ON DELETE CASCADE: what is left of the table
\* when task id goes.
CascadeDelete(id) ==
    [s \in {r \in ShareRows : r.task_id # id} |-> shares[s]]

\* ------------------------------------------------------------- initial state
NoOp == [op |-> "none"]

\* Index: useState<Task | null>(null) and useState(false); no call of
\* handleShareTask has been made.
NoTask == [id |-> 0]
NoSharing == [pc |-> "none"]
NewPage == [selectedTask |-> NoTask, showShareModal |-> FALSE, sharing |-> NoSharing]

\* The hook under observation has just been constructed (useState([])) for
\* the signed-in user FirstOwner.  The database holds one task, which that
\* user created in an earlier session and has not shared: the state
\* createTask leaves on empty tables.
FirstOwner == "u1"
FirstTask == [id |-> 1, user_id |-> FirstOwner, title |-> "Write report",
              status |-> "pending"]

Init ==
    /\ profiles = NewUserProfiles
    /\ tasks = (FirstTask.id :> FirstTask)
    /\ createdBy = (FirstTask.id :> FirstOwner)
    /\ shares = EmptyBag
    /\ nextId = FirstTask.id + 1
    /\ shareCalls = EmptyBag
    /\ fetchCalls = EmptyBag
    /\ user = FirstOwner
    /\ mem = <<>>
    /\ lastOp = NoOp
    /\ nops = 0
    /\ hook = "rendered"
    /\ channels = EmptyBag
    /\ events = 0
    /\ loading = TRUE
    /\ toasts = <<>>
    /\ page = NewPage

\* ------------------------------------------------------------- fetchTasks
\* A call of fetchTasks right after it is entered.
NewFetch(u) == [caller |-> u, pc |-> "owned", owned |-> <<>>, all |-> <<>>,
                event |-> FALSE]

\* Mutant: the mutations leave the refresh to the change feed.
WriteThroughNever(u, outcome) == UNCHANGED fetchCalls

\* Mutant: fetchTasks is awaited in a finally block.
WriteThroughAlways(u, outcome) ==
    IF u = user /\ u # NoUser /\ hook # "unmounted"
    THEN fetchCalls' = fetchCalls (+) SetToBag({NewFetch(u)})
    ELSE UNCHANGED fetchCalls

\* await fetchTasks() at the end of a mutation that did not throw; a
\* mutation that threw goes to its catch block and starts none.  The call
\* is one of the hook under observation when its caller is that hook's
\* user; fetchTasks returns at once when there is no user.
WriteThrough(u, outcome) ==
    IF outcome = "success" /\ u = user /\ u # NoUser /\ hook # "unmounted"
    THEN fetchCalls' = fetchCalls (+) SetToBag({NewFetch(u)})
    ELSE UNCHANGED fetchCalls

\* The queries of a fetchTasks call carry the identity the client's session
\* has when they are sent (session), and filter on the user.id of the render
\* the call was made in (uid).
\* .from('tasks').select(...).eq('user_id', user.id)
OwnedQuery(session, uid) ==
    RowsOf({id \in VisibleTasks(session) : tasks[id].user_id = uid})

\* .from('tasks').select(..., task_shares!inner(...))
\*   .eq('task_shares.shared_with_user_id', user.id):
\* the visible tasks with at least one visible share row naming uid; each
\* such task comes once, its shares embedded.
SharedQuery(session, uid) ==
    RowsOf({id \in VisibleTasks(session) :
              \E s \in VisibleShares(session) :
                  s.task_id = id /\ s.shared_with_user_id = uid})

\* const allTasks = [...ownedTasks, ...sharedTasks]
AllTasks(owned, shared) == owned \o shared

\* refreshTasks: a call of fetchTasks is entered.
StartFetch(u) ==
    /\ u = user
    /\ hook # "unmounted"
    /\ nops < MaxOps
    /\ nops' = nops + 1
    /\ fetchCalls' = fetchCalls (+) SetToBag({NewFetch(u)})
    /\ UNCHANGED <<page, storage, profiles, shareCalls, user, mem, lastOp,
                   hookView, events>>

\* The owned-tasks query runs.
FetchOwned(c) ==
    /\ BagIn(c, fetchCalls) /\ c.pc = "owned"
    /\ fetchCalls' = (fetchCalls (-) SetToBag({c}))
                     (+) SetToBag({[c EXCEPT !.pc = "shared",
                                             !.owned = OwnedQuery(user, c.caller)]})
    /\ UNCHANGED <<page, storage, profiles, shareCalls, user, mem, lastOp,
                   nops, hookView, events>>

\* The shared-tasks query runs.
FetchShared(c) ==
    /\ BagIn(c, fetchCalls) /\ c.pc = "shared"
    /\ fetchCalls' = (fetchCalls (-) SetToBag({c}))
                     (+) SetToBag({[c EXCEPT !.pc = "set",
                                             !.all = AllTasks(c.owned,
                                                             SharedQuery(user, c.caller))]})
    /\ UNCHANGED <<page, storage, profiles, shareCalls, user, mem, lastOp,
                   nops, hookView, events>>

\* setTasks(allTasks): the list after it.  React drops the state updates of
\* an unmounted component.
SetTasks(list) == IF hook = "unmounted" THEN mem ELSE list

\* setLoading(false)
SetLoading(value) == IF hook = "unmounted" THEN loading ELSE value

\* setTasks(allTasks), then the finally block.
FetchSet(c) ==
    /\ BagIn(c, fetchCalls) /\ c.pc = "set"
    /\ fetchCalls' = fetchCalls (-) SetToBag({c})
    /\ mem' = SetTasks(c.all)
    /\ loading' = SetLoading(FALSE)
    /\ UNCHANGED <<page, storage, profiles, shareCalls, user, lastOp, nops,
                   hook,
                   channels, events, toasts>>

\* Mutant: the owned tasks are stored as soon as their query has answered,
\* so a call failing at the shared-tasks query leaves them in the list.
FetchFailStoresOwned(c) ==
    /\ BagIn(c, fetchCalls) /\ c.pc \in {"owned", "shared"}
    /\ fetchCalls' = fetchCalls (-) SetToBag({c})
    /\ toasts' = Append(toasts, "Failed to fetch tasks")
    /\ loading' = SetLoading(FALSE)
    /\ mem' = IF c.pc = "shared" THEN SetTasks(c.owned) ELSE mem
    /\ UNCHANGED <<page, storage, profiles, shareCalls, user, lastOp, nops,
                   hook,
                   channels, events>>

\* ownedError or sharedError: the catch block (console.error and the toast),
\* then the finally block.  The list is left as it is.
FetchFail(c) ==
    /\ BagIn(c, fetchCalls) /\ c.pc \in {"owned", "shared"}
    /\ fetchCalls' = fetchCalls (-) SetToBag({c})
    /\ toasts' = Append(toasts, "Failed to fetch tasks")
    /\ loading' = SetLoading(FALSE)
    /\ UNCHANGED <<page, storage, profiles, shareCalls, user, mem, lastOp,
                   nops, hook,
                   channels, events>>

\* ------------------------------------------------------------- change feed
\* ALTER PUBLICATION supabase_realtime ADD TABLE tasks, task_shares: every
\* row of the two tables that a committed statement inserted, updated or
\* deleted (n of them) is notified to every subscribed channel.
Notify(n) == events' = events + n * BagCardinality(channels)

\* ------------------------------------------------------------- mutations
\* createTask: insert [{...taskData, user_id: user.id}], select the new row.
\* (With no user the call returns at once: no step.)
CreateTask(u, title, status) ==
    /\ nops < MaxOps
    /\ nextId <= MaxTasks
    /\ nops' = nops + 1
    /\ LET row == [id |-> nextId, user_id |-> u, title |-> title, status |-> status]
           ok  == TasksInsertCheck(u, row) /\ TasksSelectUsing(u, row)
           outcome == IF ok THEN "success" ELSE "error"
       IN  /\ IF ok
              THEN /\ tasks' = (nextId :> row) @@ tasks
                   /\ createdBy' = (nextId :> u) @@ createdBy
                   /\ nextId' = nextId + 1
                   /\ Notify(1)
              ELSE UNCHANGED <<tasks, createdBy, nextId, events>>
           /\ WriteThrough(u, outcome)
           /\ lastOp' = [op |-> "createTask", caller |-> u, task |-> nextId,
                         outcome |-> outcome]
    /\ UNCHANGED <<page, shares, profiles, shareCalls, user, mem, hookView>>

\* updateTask: .update(updates).eq('id', taskId).  The statement touches the
\* rows the caller can see and the UPDATE policies select; none is no error.
UpdateTask(u, id, updates) ==
    /\ nops < MaxOps
    /\ id < nextId
    /\ nops' = nops + 1
    /\ LET matched == /\ id \in DOMAIN tasks
                      /\ TasksSelectUsing(u, tasks[id])
                      /\ TasksUpdateUsing(u, tasks[id])
           new == ApplyUpdates(tasks[id], updates)
           outcome == IF matched /\ ~TasksUpdateCheck(u, new)
                      THEN "error" ELSE "success"
       IN  /\ IF matched /\ outcome = "success"
              THEN tasks' = [tasks EXCEPT ![id] = new] /\ Notify(1)
              ELSE UNCHANGED <<tasks, events>>
           /\ WriteThrough(u, outcome)
           /\ lastOp' = [op |-> "updateTask", caller |-> u, task |-> id,
                         applied |-> matched /\ outcome = "success",
                         outcome |-> outcome]
    /\ UNCHANGED <<page, createdBy, shares, nextId, profiles, shareCalls,
                   user, mem, hookView>>

\* deleteTask: .delete().eq('id', taskId); the shares of a deleted task go
\* with it (ON DELETE CASCADE).
DeleteTask(u, id) ==
    /\ nops < MaxOps
    /\ id < nextId
    /\ nops' = nops + 1
    /\ LET matched == /\ id \in DOMAIN tasks
                      /\ TasksSelectUsing(u, tasks[id])
                      /\ TasksDeleteUsing(u, tasks[id])
       IN  /\ IF matched
              THEN /\ tasks' = [t \in DOMAIN tasks \ {id} |-> tasks[t]]
                   /\ shares' = CascadeDelete(id)
                   /\ Notify(1 + Cardinality({s \in ShareRows : s.task_id = id}))
              ELSE UNCHANGED <<tasks, shares, events>>
           /\ WriteThrough(u, "success")
           /\ lastOp' = [op |-> "deleteTask", caller |-> u, task |-> id,
                         applied |-> matched,
                         cascaded |-> matched /\ \E s \in ShareRows : s.task_id = id,
                         outcome |-> "success"]
    /\ UNCHANGED <<page, createdBy, nextId, profiles, shareCalls, user, mem,
                   hookView>>

\* History kept with a shareTask call in flight: the permissions the pair's
\* rows carried when the call was entered (empty: the pair had no row).
PermissionsOfPair(id, w) ==
    {s.permission : s \in {r \in ShareRows : r.task_id = id /\ r.shared_with_user_id = w}}

\* shareTask, first statement: profiles by email, .single() (exactly one row
\* or an error).  No profile: the "User not found" toast and return.
\* Mutant: with no match the query falls back to the first profile.
ProfilesByEmailOrFirst(email) ==
    IF \E p \in profiles : p.email = email
    THEN {p \in profiles : p.email = email}
    ELSE {CHOOSE p \in profiles : TRUE}

ProfilesByEmail(email) == {p \in profiles : p.email = email}

ShareTaskLookup(u, id, email, permission) ==
    /\ nops < MaxOps
    /\ id < nextId
    /\ nops' = nops + 1
    /\ LET found == ProfilesByEmail(email) \cap VisibleProfiles(u)
       IN  IF Cardinality(found) = 1
           THEN LET profile == CHOOSE p \in found : TRUE
                IN  /\ shareCalls' = shareCalls (+) SetToBag({
                            [caller |-> u, task_id |-> id,
                             profile_id |-> profile.id, permission |-> permission,
                             existing |-> PermissionsOfPair(id, profile.id)]})
                    /\ lastOp' = [op |-> "shareTask.lookup", caller |-> u, task |-> id,
                                  email |-> email, outcome |-> "found"]
           ELSE /\ UNCHANGED shareCalls
                /\ lastOp' = [op |-> "shareTask.lookup", caller |-> u, task |-> id,
                              email |-> email, outcome |-> "not-found"]
    /\ UNCHANGED <<storage, profiles, fetchCalls, user, mem, hookView, events>>

\* shareTask, second statement: insert the share row.
ShareTaskInsert(c) ==
    /\ BagIn(c, shareCalls)
    /\ shareCalls' = shareCalls (-) SetToBag({c})
    /\ LET row == [task_id |-> c.task_id, shared_by_user_id |-> c.caller,
                   shared_with_user_id |-> c.profile_id, permission |-> c.permission]
           ok  == /\ SharesTaskFkOk(row)
                  /\ SharesInsertCheck(c.caller, row)
                  /\ SharesUniqueOk(row)
           outcome == IF ok THEN "success" ELSE "error"
       IN  /\ IF ok
              THEN shares' = shares (+) SetToBag({row}) /\ Notify(1)
              ELSE UNCHANGED <<shares, events>>
           /\ WriteThrough(c.caller, outcome)
           /\ lastOp' = [op |-> "shareTask.insert", caller |-> c.caller,
                         task |-> c.task_id, with |-> c.profile_id,
                         permission |-> c.permission, outcome |-> outcome]
    /\ UNCHANGED <<tasks, createdBy, nextId, profiles, user, mem, nops, hookView>>

\* A client statement the hook does not issue but the DELETE policy of
\* task_shares governs: delete the share of task id with recipient w.
DeleteShare(u, id, w) ==
    /\ nops < MaxOps
    /\ id < nextId
    /\ nops' = nops + 1
    /\ LET gone == {s \in ShareRows :
                      /\ s.task_id = id /\ s.shared_with_user_id = w
                      /\ SharesSelectUsing(u, s)
                      /\ SharesDeleteUsing(u, s)}
       IN  /\ shares' = [s \in ShareRows \ gone |-> shares[s]]
           /\ Notify(Cardinality(gone))
           /\ lastOp' = [op |-> "deleteShare", caller |-> u, task |-> id,
                         with |-> w, applied |-> gone # {}, outcome |-> "success"]
    /\ UNCHANGED <<page, tasks, createdBy, nextId, profiles, shareCalls,
                   fetchCalls, user,
                   mem, hookView>>

\* A client statement the hook does not issue but the UPDATE policy of
\* profiles governs: set the email of profile id.  The table has no
\* constraint on email besides NOT NULL.
UpdateProfile(u, id, email) ==
    /\ nops < MaxOps
    /\ nops' = nops + 1
    /\ LET matched == {p \in VisibleProfiles(u) : p.id = id /\ ProfilesUpdateUsing(u, p)}
           new(p)  == [p EXCEPT !.email = email]
           ok      == \A p \in matched : ProfilesUpdateUsing(u, new(p))
       IN  /\ profiles' = IF ok THEN (profiles \ matched) \cup {new(p) : p \in matched}
                                ELSE profiles
           /\ lastOp' = [op |-> "updateProfile", caller |-> u, profile |-> id,
                         applied |-> ok /\ matched # {},
                         outcome |-> IF ok THEN "success" ELSE "error"]
    /\ UNCHANGED <<page, storage, shareCalls, fetchCalls, user, mem,
                   hookView, events>>

\* ------------------------------------------------------------- the effect
\* return () => { supabase.removeChannel(tasksSubscription) }: the cleanup of
\* the effect that ran for the hook's user; the other branch returns none.
\* Mutant: the effect returns no cleanup.
EffectCleanupLeaks(chs) == chs

EffectCleanup(chs) ==
    IF user # NoUser THEN chs (-) SetToBag({[for |-> user]}) ELSE chs

\* What is left of the notifications when the channels are chs: those of a
\* removed channel are not handed over any more.
PendingFor(chs) == IF chs = EmptyBag THEN 0 ELSE events

\* useAuth().user becomes v (login, logout, another user's session): React
\* renders, runs the cleanup of the last effect and then the effect, which
\* for a user calls fetchTasks() and subscribes a new channel, and for none
\* does setTasks([]) and setLoading(false).
AuthChange(v) ==
    /\ hook = "mounted"
    /\ v # user
    /\ nops < MaxOps
    /\ nops' = nops + 1
    /\ user' = v
    /\ IF v # NoUser
       THEN /\ fetchCalls' = fetchCalls (+) SetToBag({NewFetch(v)})
            /\ channels' = EffectCleanup(channels) (+) SetToBag({[for |-> v]})
            /\ UNCHANGED <<mem, loading>>
       ELSE /\ channels' = EffectCleanup(channels)
            /\ mem' = <<>>
            /\ loading' = FALSE
            /\ UNCHANGED fetchCalls
    /\ events' = PendingFor(EffectCleanup(channels))
    /\ UNCHANGED <<page, storage, profiles, shareCalls, lastOp, hook, toasts>>

\* The component using the hook is discarded: the cleanup runs.
Unmount ==
    /\ hook = "mounted"
    /\ hook' = "unmounted"
    /\ channels' = EffectCleanup(channels)
    /\ events' = PendingFor(EffectCleanup(channels))
    /\ UNCHANGED <<page, storage, profiles, shareCalls, fetchCalls, user,
                   mem, lastOp, nops,
                   loading, toasts>>

\* A postgres_changes callback of channel ch runs: () => fetchTasks(), the
\* fetchTasks of the render whose effect subscribed the channel.
ChangeEvent(ch) ==
    /\ BagIn(ch, channels)
    /\ events > 0
    /\ events' = events - 1
    /\ fetchCalls' = fetchCalls (+) SetToBag({[NewFetch(ch.for) EXCEPT !.event = TRUE]})
    /\ UNCHANGED <<page, storage, profiles, shareCalls, user, mem, lastOp,
                   nops, hook,
                   channels, loading, toasts>>

\* ------------------------------------------------------------- the Index page
\* The emails ShareTaskModal hands to onShare: addEmail refuses an email that
\* is in the list already, and handleSubmit an empty list.  (addEmail also
\* refuses the emails of the shares the selected row was fetched with; a
\* share made since is not among them, so any email can be listed.)  A list
\* is no longer than the calls a run makes.
EmailLists ==
    {l \in UNION {[1..n -> Emails] : n \in 1..MaxOps} :
        \A i, j \in DOMAIN l : i # j => l[i] # l[j]}

\* TaskCard's onShare for the i-th card: setSelectedTask(task) and
\* setShowShareModal(true).  Every card has the menu item.
OpenShareModal(i) ==
    /\ hook = "mounted"
    /\ i \in 1..Len(mem)
    /\ ~page.showShareModal
    /\ page' = [page EXCEPT !.selectedTask = mem[i], !.showShareModal = TRUE]
    /\ UNCHANGED <<storage, profiles, shareCalls, fetchCalls, user, mem, lastOp,
                   nops, hookView, events>>

\* ShareTaskModal.handleSubmit: onShare(emails), which enters
\* handleShareTask with the selected task, then handleClose, whose onClose
\* closes the modal and clears the selection.  The first shareTask call of
\* the loop is entered; its statements run in the steps below.  (One call of
\* handleShareTask at a time is followed.)
HandleShareTask(emails) ==
    /\ hook = "mounted"
    /\ page.showShareModal
    /\ page.selectedTask # NoTask
    /\ page.sharing.pc \in {"none", "done"}
    /\ page' = [selectedTask |-> NoTask, showShareModal |-> FALSE,
                sharing |-> [pc |-> "lookup", caller |-> user,
                             task |-> page.selectedTask.id, emails |-> emails,
                             i |-> 1, calls |-> <<>>, call |-> NoOp]]
    /\ UNCHANGED <<storage, profiles, shareCalls, fetchCalls, user, mem, lastOp,
                   nops, hookView, events>>

\* await shareTask(selectedTask.id, email, 'view')
ShareCallOf(sh) == [email |-> sh.emails[sh.i], permission |-> "view"]

\* Mutant: shareTask rethrows what it caught, which ends handleShareTask at
\* the first call that fails.
LoopAfterThrows(sh, outcome) ==
    IF sh.i < Len(sh.emails) /\ outcome = "success"
    THEN [page EXCEPT !.sharing = [sh EXCEPT !.pc = "lookup", !.i = sh.i + 1]]
    ELSE [selectedTask |-> NoTask, showShareModal |-> FALSE,
          sharing |-> [sh EXCEPT !.pc = "done"]]

\* The page once the shareTask call for emails[i] has returned with outcome:
\* shareTask catches its own errors, so the loop goes on to the next email
\* whatever the outcome, and after the last one does setShowShareModal(false)
\* and setSelectedTask(null).
LoopAfter(sh, outcome) ==
    IF sh.i < Len(sh.emails)
    THEN [page EXCEPT !.sharing = [sh EXCEPT !.pc = "lookup", !.i = sh.i + 1]]
    ELSE [selectedTask |-> NoTask, showShareModal |-> FALSE,
          sharing |-> [sh EXCEPT !.pc = "done"]]

\* The profile query of the loop's shareTask call runs.  No profile: the
\* call returns after its toast.
HandleShareTaskLookup ==
    LET sh == page.sharing
    IN  /\ sh.pc = "lookup"
        /\ ShareTaskLookup(sh.caller, sh.task, sh.emails[sh.i], ShareCallOf(sh).permission)
        /\ LET made == [sh EXCEPT !.calls = Append(sh.calls, ShareCallOf(sh))]
           IN  page' = IF lastOp'.outcome = "found"
                       THEN [page EXCEPT !.sharing = [made EXCEPT
                               !.pc = "insert",
                               !.call = CHOOSE c \in BagToSet(shareCalls') :
                                   CopiesIn(c, shareCalls') > CopiesIn(c, shareCalls)]]
                       ELSE LoopAfter(made, "error")

\* The insert of the loop's shareTask call runs and the call returns.  (On
\* success it first awaits fetchTasks(), which only delays the next call;
\* every such delay is a run of these steps.)
HandleShareTaskInsert ==
    LET sh == page.sharing
    IN  /\ sh.pc = "insert"
        /\ ShareTaskInsert(sh.call)
        /\ page' = LoopAfter(sh, lastOp'.outcome)

\* TaskCard.handleStatusChange, the onClick of the card's status button.
statusOrder == <<"pending", "in-progress", "completed">>

\* Array.prototype.indexOf: the 0-based index of the first x, or -1.
IndexOf(seq, x) ==
    IF \E k \in DOMAIN seq : seq[k] = x
    THEN Min({k \in DOMAIN seq : seq[k] = x}) - 1
    ELSE -1

\* statusOrder[(currentIndex + 1) % statusOrder.length]
NextStatus(status) ==
    statusOrder[((IndexOf(statusOrder, status) + 1) % Len(statusOrder)) + 1]

\* {task.status === 'completed' ? 'Completed' : 'Mark Complete'}
StatusButtonLabel(status) ==
    IF status = "completed" THEN "Completed" ELSE "Mark Complete"

\* The status button of the i-th card is pressed: onUpdate({status}), which
\* Index passes to updateTask with the card's task id (and a due_date that
\* is undefined, which is not sent).
HandleStatusChange(i) ==
    /\ hook = "mounted"
    /\ i \in 1..Len(mem)
    /\ UpdateTask(user, mem[i].id, [status |-> NextStatus(mem[i].status)])

\* ------------------------------------------------------------- specification
Next ==
    \/ \E u \in Users, title \in Titles, status \in Statuses : CreateTask(u, title, status)
    \/ \E u \in Users, id \in TaskIds, updates \in PartialTasks : UpdateTask(u, id, updates)
    \/ \E u \in Users, id \in TaskIds : DeleteTask(u, id)
    \/ \E u \in Users, id \in TaskIds, email \in Emails, permission \in Permissions :
          ShareTaskLookup(u, id, email, permission) /\ UNCHANGED page
    \/ \E c \in BagToSet(shareCalls) : ShareTaskInsert(c) /\ UNCHANGED page
    \/ \E u \in Users, id \in TaskIds, w \in Users : DeleteShare(u, id, w)
    \/ \E u \in Users : StartFetch(u)
    \/ \E c \in BagToSet(fetchCalls) : FetchOwned(c)
    \/ \E c \in BagToSet(fetchCalls) : FetchShared(c)
    \/ \E c \in BagToSet(fetchCalls) : FetchSet(c)

Spec == Init /\ [][Next]_vars

\* The hook under observation through its life: mounted for FirstOwner, its
\* effect has run (fetchTasks() is in flight, the channel is subscribed);
\* then the user changes and the component is discarded, while updateTask
\* calls of this and the other sessions change the table under it and
\* queries of fetchTasks can fail.  The
\* change feed is best effort: in these runs its notifications stay
\* undelivered (RefreshSpec has them delivered).
SessionInit ==
    /\ profiles = NewUserProfiles
    /\ tasks = (FirstTask.id :> FirstTask)
    /\ createdBy = (FirstTask.id :> FirstOwner)
    /\ shares = EmptyBag
    /\ nextId = FirstTask.id + 1
    /\ shareCalls = EmptyBag
    /\ fetchCalls = SetToBag({NewFetch(FirstOwner)})
    /\ user = FirstOwner
    /\ mem = <<>>
    /\ lastOp = NoOp
    /\ nops = 0
    /\ hook = "mounted"
    /\ channels = SetToBag({[for |-> FirstOwner]})
    /\ events = 0
    /\ loading = TRUE
    /\ toasts = <<>>
    /\ page = NewPage

SessionNext ==
    \/ \E v \in Callers : AuthChange(v)
    \/ Unmount
    \/ \E u \in Callers, id \in TaskIds, updates \in PartialTasks : UpdateTask(u, id, updates)
    \/ \E c \in BagToSet(fetchCalls) : FetchOwned(c)
    \/ \E c \in BagToSet(fetchCalls) : FetchShared(c)
    \/ \E c \in BagToSet(fetchCalls) : FetchSet(c)
    \/ \E c \in BagToSet(fetchCalls) : FetchFail(c)

SessionSpec == SessionInit /\ [][SessionNext]_vars

\* The mounted hook of one user and its refreshes: those the change feed
\* triggers and those of its own updateTask calls, with queries that can
\* fail.
RefreshNext ==
    \/ \E ch \in BagToSet(channels) : ChangeEvent(ch)
    \/ \E u \in Users, id \in TaskIds, updates \in PartialTasks : UpdateTask(u, id, updates)
    \/ \E c \in BagToSet(fetchCalls) : FetchOwned(c)
    \/ \E c \in BagToSet(fetchCalls) : FetchShared(c)
    \/ \E c \in BagToSet(fetchCalls) : FetchSet(c)
    \/ \E c \in BagToSet(fetchCalls) : FetchFail(c)

RefreshSpec == SessionInit /\ [][RefreshNext]_vars

\* The profiles table under the statements of its users and of a client
\* with no session, and shareTask resolving emails against it.
ProfilesNext ==
    \/ \E u \in Callers, id \in Users, email \in Emails : UpdateProfile(u, id, email)
    \/ \E u \in Callers, id \in TaskIds, email \in Emails, permission \in Permissions :
          ShareTaskLookup(u, id, email, permission) /\ UNCHANGED page
    \/ \E c \in BagToSet(shareCalls) : ShareTaskInsert(c) /\ UNCHANGED page

ProfilesSpec == Init /\ [][ProfilesNext]_vars

\* The Index page of a signed-in user over the mounted hook: the cards of
\* the fetched list and the share modal, while the other users' sessions
\* share tasks through pages of their own (always with 'view').
IndexInit ==
    /\ profiles = NewUserProfiles
    /\ tasks = (FirstTask.id :> FirstTask)
    /\ createdBy = (FirstTask.id :> FirstOwner)
    /\ shares = EmptyBag
    /\ nextId = FirstTask.id + 1
    /\ shareCalls = EmptyBag
    /\ user \in Users
    /\ fetchCalls = SetToBag({NewFetch(user)})
    /\ mem = <<>>
    /\ lastOp = NoOp
    /\ nops = 0
    /\ hook = "mounted"
    /\ channels = SetToBag({[for |-> user]})
    /\ events = 0
    /\ loading = TRUE
    /\ toasts = <<>>
    /\ page = NewPage

IndexNext ==
    \/ \E c \in BagToSet(fetchCalls) : FetchOwned(c)
    \/ \E c \in BagToSet(fetchCalls) : FetchShared(c)
    \/ \E c \in BagToSet(fetchCalls) : FetchSet(c)
    \/ \E u \in Users \ {user}, id \in TaskIds, email \in Emails :
          ShareTaskLookup(u, id, email, "view") /\ UNCHANGED page
    \/ \E c \in BagToSet(shareCalls) :
          c.caller # user /\ ShareTaskInsert(c) /\ UNCHANGED page
    \/ \E i \in 1..Len(mem) : OpenShareModal(i)
    \/ \E emails \in EmailLists : HandleShareTask(emails)
    \/ HandleShareTaskLookup
    \/ HandleShareTaskInsert

IndexSpec == IndexInit /\ [][IndexNext]_vars

\* The cards of that page and their status buttons, while updateTask calls
\* of other sessions (of any user) change the tasks under the fetched list.
CardNext ==
    \/ \E c \in BagToSet(fetchCalls) : FetchOwned(c)
    \/ \E c \in BagToSet(fetchCalls) : FetchShared(c)
    \/ \E c \in BagToSet(fetchCalls) : FetchSet(c)
    \/ \E u \in Users, id \in TaskIds, updates \in PartialTasks :
          UpdateTask(u, id, updates)
    \/ \E i \in 1..Len(mem) : HandleStatusChange(i)

CardSpec == IndexInit /\ [][CardNext]_vars

\* ------------------------------------------------------------- claims
\* What a user is to a task, read off the two tables.
IsOwner(u, id) == id \in DOMAIN tasks /\ tasks[id].user_id = u

HasShare(u, id, permission) ==
    \E s \in ShareRows :
        s.task_id = id /\ s.shared_with_user_id = u /\ s.permission = permission

ViewOnly(u, id) ==
    /\ id \in DOMAIN tasks
    /\ ~IsOwner(u, id)
    /\ HasShare(u, id, "view")
    /\ ~HasShare(u, id, "edit")

EditGrantee(u, id) ==
    /\ id \in DOMAIN tasks
    /\ ~IsOwner(u, id)
    /\ HasShare(u, id, "edit")

SharesOfPair(rows, id, w) ==
    {s \in rows : s.task_id = id /\ s.shared_with_user_id = w}

\* C1: in every reachable state the task read policy lets user U read task T
\* if and only if U owns T or some share row (of any permission) has task T
\* and recipient U.
C1_ReadIffOwnerOrShared ==
    \A id \in DOMAIN tasks, u \in Users :
        TasksSelectUsing(u, tasks[id])
            <=> \/ tasks[id].user_id = u
                \/ \E s \in ShareRows : s.task_id = id /\ s.shared_with_user_id = u

\* C1 witness: a user who does not own a task reads it through a view share.
C1_Witness ==
    \E id \in DOMAIN tasks, u \in Users :
        /\ ViewOnly(u, id)
        /\ id \in VisibleTasks(u)

\* C2 (as claimed): an update by a user whose only relation to a task is an
\* edit share leaves the task's owner as it was, so that user is afterwards
\* still not let through by the DELETE policy of tasks.
C2_EditGranteeKeepsOwner ==
    [][ \A u \in Users, id \in TaskIds :
          EditGrantee(u, id) =>
            \A updates \in PartialTasks :
              UpdateTask(u, id, updates)
                => /\ id \in DOMAIN tasks'
                   /\ tasks'[id].user_id = tasks[id].user_id
                   /\ tasks'[id].user_id = createdBy[id]
                   /\ ~TasksDeleteUsing(u, tasks'[id])
      ]_vars

\* C3: an update attempted by a user who does not own the task and holds
\* only a view share on it changes no column of the stored task.
C3_ViewShareUpdateDenied ==
    [][ \A u \in Users, id \in TaskIds :
          ViewOnly(u, id) =>
            \A updates \in PartialTasks :
              UpdateTask(u, id, updates)
                => (id \in DOMAIN tasks' /\ tasks'[id] = tasks[id])
      ]_vars

\* C3 witness: the last statement was an update by a view-only grantee, and
\* it touched no row.
C3_Witness ==
    /\ lastOp.op = "updateTask"
    /\ ~lastOp.applied
    /\ ViewOnly(lastOp.caller, lastOp.task)

\* C4: for a user who does not own the task and holds an edit share on it,
\* an update stores every supplied column and leaves the others, and a
\* delete removes neither the task nor any share.
C4_EditShareUpdatesNotDeletes ==
    [][ \A u \in Users, id \in TaskIds :
          EditGrantee(u, id) =>
            /\ \A updates \in PartialTasks :
                  UpdateTask(u, id, updates)
                    => /\ id \in DOMAIN tasks'
                       /\ \A f \in DOMAIN tasks[id] :
                              tasks'[id][f] = IF f \in DOMAIN updates
                                              THEN updates[f] ELSE tasks[id][f]
            /\ DeleteTask(u, id)
                  => /\ id \in DOMAIN tasks' /\ tasks'[id] = tasks[id]
                     /\ shares' = shares
      ]_vars

\* C4 witness: an edit grantee's update has just set the status of a task
\* they do not own.
C4_Witness ==
    /\ lastOp.op = "updateTask"
    /\ lastOp.applied
    /\ EditGrantee(lastOp.caller, lastOp.task)
    /\ tasks[lastOp.task].status = "completed"

\* C5: in every reachable state task_shares holds at most one row for each
\* (task, recipient) pair.
C5_OneSharePerPair ==
    \A s \in ShareRows :
        /\ CopiesIn(s, shares) = 1
        /\ \A r \in ShareRows :
              (r.task_id = s.task_id /\ r.shared_with_user_id = s.shared_with_user_id)
                  => r = s

\* C5 witness: the owner's insert for a pair has just succeeded while
\* another shareTask call of the owner for the same pair is in flight.
C5_Witness ==
    /\ lastOp.op = "shareTask.insert"
    /\ lastOp.outcome = "success"
    /\ \E c \in BagToSet(shareCalls) :
          /\ c.task_id = lastOp.task /\ c.profile_id = lastOp.with
          /\ c.caller = lastOp.caller
          /\ IsOwner(c.caller, c.task_id)

\* C6 (as claimed): when the owner calls shareTask for a pair that already
\* has a share row, with another permission than the row's, the call
\* succeeds and the pair's row then carries the permission of this call.
C6_ReshareReplaces ==
    [][ \A c \in BagToSet(shareCalls) :
            ( /\ ShareTaskInsert(c)
              /\ IsOwner(c.caller, c.task_id)
              /\ c.existing # {} /\ c.permission \notin c.existing
              /\ SharesOfPair(ShareRows, c.task_id, c.profile_id) # {} )
                => /\ lastOp'.outcome = "success"
                   /\ \A s \in SharesOfPair(ShareRows', c.task_id, c.profile_id) :
                          s.permission = c.permission
      ]_vars

\* C7: in every reachable state every share row refers to a stored task, so
\* a deleted task has no share left and is in no user's visible set.
C7_NoOrphanShares ==
    /\ \A s \in ShareRows : s.task_id \in DOMAIN tasks
    /\ \A id \in TaskIds \ DOMAIN tasks, u \in Users :
          /\ id \notin VisibleTasks(u)
          /\ \A s \in VisibleShares(u) : s.task_id # id

\* C7 witness: the owner has just deleted a task that had shares.
C7_Witness ==
    /\ lastOp.op = "deleteTask"
    /\ lastOp.cascaded
    /\ lastOp.task \notin DOMAIN tasks

\* C8: shareTask with an email no profile has ends at the profile query with
\* the not-found outcome: no insert is left to run and tasks and task_shares
\* are as before.
C8_UnknownEmailNotFound ==
    [][ \A email \in Emails :
          email \notin {p.email : p \in profiles} =>
            \A u \in Users, id \in TaskIds, permission \in Permissions :
              ShareTaskLookup(u, id, email, permission)
                => /\ lastOp'.outcome = "not-found"
                   /\ shareCalls' = shareCalls
                   /\ tasks' = tasks /\ shares' = shares
      ]_vars

\* C8 witness: the last step was a shareTask for the unknown email.
C8_Witness ==
    /\ lastOp.op = "shareTask.lookup"
    /\ lastOp.email = UnknownEmail
    /\ lastOp.outcome = "not-found"

\* C9 (as claimed): the list fetchTasks produces, and so the list in the
\* hook, holds each task id at most once.
NoDuplicateIds(list) ==
    \A i, j \in 1..Len(list) : list[i].id = list[j].id => i = j

C9_FetchedListHasNoDuplicates ==
    /\ NoDuplicateIds(mem)
    /\ \A c \in BagToSet(fetchCalls) : NoDuplicateIds(c.all)

\* C10: task_shares changes only in a step whose caller owns, at that
\* moment, the task of every row that comes or goes; an insert or a delete
\* of a share attempted by anyone else leaves the table as it was.
C10_OnlyOwnerChangesShares ==
    [][ /\ \A s \in (ShareRows' \ ShareRows) \cup (ShareRows \ ShareRows') :
              IsOwner(lastOp'.caller, s.task_id)
        /\ \A c \in BagToSet(shareCalls) :
              ~IsOwner(c.caller, c.task_id) =>
                (ShareTaskInsert(c) => shares' = shares)
        /\ \A u \in Users, id \in TaskIds :
              ~IsOwner(u, id) =>
                \A w \in Users : DeleteShare(u, id, w) => shares' = shares
      ]_vars

\* C10 witness: a recipient with edit permission has just tried to share the
\* task on and was refused.
C10_Witness ==
    /\ lastOp.op = "shareTask.insert"
    /\ lastOp.outcome = "error"
    /\ EditGrantee(lastOp.caller, lastOp.task)

\* C11 (as claimed): every mutation the policies deny ends with the error
\* outcome: an update by a caller who neither owns the task nor holds an
\* edit share on it, a delete by a caller who does not own the task, and a
\* share insert by a caller who does not own the task.
C11_DeniedMutationReportedAsFailure ==
    [][ /\ \A u \in Users, id \in DOMAIN tasks :
              ~TasksUpdateUsing(u, tasks[id]) =>
                \A updates \in PartialTasks :
                  UpdateTask(u, id, updates) => lastOp'.outcome = "error"
        /\ \A u \in Users, id \in DOMAIN tasks :
              ~TasksDeleteUsing(u, tasks[id]) =>
                (DeleteTask(u, id) => lastOp'.outcome = "error")
        /\ \A c \in BagToSet(shareCalls) :
              ~IsOwner(c.caller, c.task_id) =>
                (ShareTaskInsert(c) => lastOp'.outcome = "error")
      ]_vars

\* C12 (as claimed): createTask with an empty title ends with the error
\* outcome and inserts nothing, and no step leaves a task created with an
\* empty title in the table.
C12_EmptyTitleRejected ==
    [][ \A u \in Users, status \in Statuses :
          CreateTask(u, "", status)
            => /\ lastOp'.outcome = "error"
               /\ tasks' = tasks
               /\ \A id \in DOMAIN tasks' : tasks'[id].title # ""
      ]_vars

\* C13 (as claimed): a caller with no identity passes no policy of tasks and
\* task_shares on any row, and its statements read no profile and change no
\* profile and no share: its shareTask finds no profile for any email.
C13_AnonymousDeniedEverywhere ==
    [][ /\ \A id \in DOMAIN tasks :
              /\ ~TasksSelectUsing(NoUser, tasks[id])
              /\ ~TasksUpdateUsing(NoUser, tasks[id])
              /\ ~TasksDeleteUsing(NoUser, tasks[id])
        /\ \A u \in Users, title \in Titles, status \in Statuses :
              ~TasksInsertCheck(NoUser, [id |-> nextId, user_id |-> u,
                                         title |-> title, status |-> status])
        /\ \A s \in ShareRows :
              ~SharesSelectUsing(NoUser, s) /\ ~SharesDeleteUsing(NoUser, s)
        /\ \A c \in BagToSet(shareCalls) :
              c.caller = NoUser => (ShareTaskInsert(c) => shares' = shares)
        /\ \A id \in Users, email \in Emails :
              UpdateProfile(NoUser, id, email) => profiles' = profiles
        /\ \A id \in TaskIds, email \in Emails, permission \in Permissions :
              ShareTaskLookup(NoUser, id, email, permission)
                => lastOp'.outcome = "not-found"
      ]_vars

\* C14 (as claimed): in every reachable state no two rows of profiles carry
\* the same email, so for every email shareTask's profile query matches at
\* most one row.
C14_ProfileEmailsUnique ==
    /\ \A p, q \in profiles : p.email = q.email => p = q
    /\ \A email \in Emails : Cardinality(ProfilesByEmail(email)) <= 1

\* C15: every createTask, updateTask, deleteTask or shareTask call of the
\* hook's user whose statement succeeds enters fetchTasks in the same step,
\* before it returns: a call more is in flight, at its first query, and it
\* is not one a change-feed callback made.
RefetchStarted ==
    /\ fetchCalls' = fetchCalls (+) SetToBag({NewFetch(user)})
    /\ ~NewFetch(user).event

C15_SuccessStartsRefetch ==
    [][ ( /\ nops' # nops \/ shareCalls' # shareCalls
          /\ user # NoUser
          /\ lastOp'.op # "none"
          /\ lastOp'.caller = user
          /\ lastOp'.outcome = "success" ) =>
          /\ lastOp'.op = "createTask" =>
                \A title \in Titles, status \in Statuses :
                    CreateTask(user, title, status) => RefetchStarted
          /\ lastOp'.op = "updateTask" =>
                \A updates \in PartialTasks :
                    UpdateTask(user, lastOp'.task, updates) => RefetchStarted
          /\ lastOp'.op = "deleteTask" =>
                (DeleteTask(user, lastOp'.task) => RefetchStarted)
          /\ lastOp'.op = "shareTask.insert" =>
                \A c \in BagToSet(shareCalls) :
                    (c.caller = user /\ ShareTaskInsert(c)) => RefetchStarted
      ]_vars

\* C15 witness: the user's shareTask has just inserted a share and the
\* refresh it started is in flight, no notification being involved.
C15_Witness ==
    /\ lastOp.op = "shareTask.insert"
    /\ lastOp.caller = user
    /\ lastOp.outcome = "success"
    /\ BagIn(NewFetch(user), fetchCalls)
    /\ channels = EmptyBag

\* C16: a createTask, updateTask, deleteTask or shareTask call that ends in
\* failure (an error of its statement, or no profile for the email) leaves
\* the three tables and the hook's task list as they were and enters no
\* fetchTasks that would write the list.
FailedCallFrame ==
    /\ tasks' = tasks /\ shares' = shares /\ profiles' = profiles
    /\ mem' = mem
    /\ fetchCalls' = fetchCalls

C16_FailedCallChangesNothing ==
    [][ ( /\ nops' # nops \/ shareCalls' # shareCalls
          /\ lastOp'.op # "none"
          /\ lastOp'.outcome \in {"error", "not-found"} ) =>
          /\ lastOp'.op = "createTask" =>
                \A title \in Titles, status \in Statuses :
                    CreateTask(lastOp'.caller, title, status) => FailedCallFrame
          /\ lastOp'.op = "updateTask" =>
                \A updates \in PartialTasks :
                    UpdateTask(lastOp'.caller, lastOp'.task, updates) => FailedCallFrame
          /\ lastOp'.op = "deleteTask" =>
                (DeleteTask(lastOp'.caller, lastOp'.task) => FailedCallFrame)
          /\ lastOp'.op = "shareTask.lookup" =>
                \A permission \in Permissions :
                    ShareTaskLookup(lastOp'.caller, lastOp'.task, lastOp'.email, permission)
                        => FailedCallFrame
          /\ lastOp'.op = "shareTask.insert" =>
                \A c \in BagToSet(shareCalls) :
                    ShareTaskInsert(c) => FailedCallFrame
      ]_vars

\* C16 witness: an updateTask of the hook's user has just failed (the new
\* row did not pass the policy), with a list already fetched.
C16_Witness ==
    /\ lastOp.op = "updateTask"
    /\ lastOp.caller = user
    /\ lastOp.outcome = "error"
    /\ mem # <<>>

\* C17: in every reachable state the hook has at most one subscribed
\* channel, the channel is the one subscribed for the hook's present user,
\* and there is none while there is no user or once the component is
\* discarded: a change of user removes the old channel in the step that
\* subscribes the new one.
C17_OneSubscriptionForCurrentUser ==
    /\ BagCardinality(channels) <= 1
    /\ \A ch \in BagToSet(channels) : ch.for = user
    /\ user = NoUser => channels = EmptyBag
    /\ hook = "unmounted" => channels = EmptyBag

\* C17 witness: the user has changed from the one the hook was mounted for
\* to another, whose channel is now the subscribed one.
C17_Witness ==
    /\ hook = "mounted"
    /\ user \in Users \ {FirstOwner}
    /\ channels = SetToBag({[for |-> user]})

\* C18 (as claimed): when a refresh that a notification triggered is the
\* last of the racing fetchTasks calls to complete (none is left in flight,
\* every notification has been handed over, so the tables have not changed
\* since the last refresh was triggered, and no query has failed), the
\* hook's list then holds exactly the rows of tasks its user can read.
ListRows == {mem[i] : i \in 1..Len(mem)}

C18_RacingRefreshesConverge ==
    [][ \A c \in BagToSet(fetchCalls) :
          ( /\ c.event
            /\ FetchSet(c)
            /\ fetchCalls' = EmptyBag /\ events = 0 /\ toasts = <<>>
            /\ c.caller = user )
              => ListRows' = {tasks[id] : id \in VisibleTasks(user)}
      ]_vars

\* C19 (as claimed): when a fetchTasks call that a notification triggered
\* fails, no toast is shown, and a notification handed over after a failure
\* enters fetchTasks again.
C19_BackgroundFailureIsSilent ==
    [][ /\ \A c \in BagToSet(fetchCalls) :
              c.event => (FetchFail(c) => toasts' = toasts)
        /\ \A ch \in BagToSet(channels) :
              (toasts # <<>> /\ ChangeEvent(ch))
                  => \E c \in BagToSet(fetchCalls') :
                        c.event /\ c.pc = "owned" /\ c.caller = user
      ]_vars

\* C20 (as claimed): the hook's list is empty whenever there is no user, and
\* a fetchTasks call made for another user than the present one (its user
\* has since logged out or been replaced) completes without writing the
\* list.
C20_ListBelongsToCurrentUser ==
    [][ /\ user' = NoUser => mem' = <<>>
        /\ \A c \in BagToSet(fetchCalls) :
              (c.caller # user /\ FetchSet(c)) => mem' = mem
      ]_vars

\* C21: a fetchTasks call whose owned-tasks or shared-tasks query fails
\* leaves the hook's list exactly as it was (the owned tasks already fetched
\* are not stored), and after any fetchTasks call of a signed-in user has
\* finished, by setting the list or by failing, loading is false.
C21_FailedFetchKeepsList ==
    [][ fetchCalls' # fetchCalls =>
          \A c \in BagToSet(fetchCalls) :
            (c.caller # NoUser /\ hook = "mounted") =>
              /\ FetchFail(c) => (mem' = mem /\ ~loading')
              /\ FetchSet(c) => ~loading'
      ]_vars

\* C21 witness: the hook shows a list fetched earlier, loading is false, and
\* a later fetchTasks call has failed and shown its toast; the list still
\* holds every task the user can read.
C21_Witness ==
    /\ toasts # <<>>
    /\ ~loading
    /\ mem # <<>>
    /\ {mem[i].id : i \in 1..Len(mem)} = VisibleTasks(user)

\* C22 (as claimed): in every reachable state the shared_by_user_id of every
\* share row is the owner of the row's task, and so the SELECT policy of
\* task_shares lets the owner of a task read every share of it.
C22_GrantorIsOwner ==
    \A s \in ShareRows :
        /\ s.task_id \in DOMAIN tasks
        /\ s.shared_by_user_id = tasks[s.task_id].user_id
        /\ SharesSelectUsing(tasks[s.task_id].user_id, s)

\* The emails of a list that have a profile, and what the loop of
\* handleShareTask must have called for a list.
Resolves(email) == ProfilesByEmail(email) # {}
SharedWithEmail(id, email) ==
    \A p \in ProfilesByEmail(email) :
        \E s \in ShareRows : s.task_id = id /\ s.shared_with_user_id = p.id
CallsFor(emails) ==
    [k \in 1..Len(emails) |-> [email |-> emails[k], permission |-> "view"]]

\* C23 (as claimed): when handleShareTask has finished, it has called
\* shareTask once per listed email, in list order, each with 'view', and
\* every listed email that resolves to a profile has a share row on the task.
C23_EveryResolvedEmailShared ==
    page.sharing.pc = "done" =>
        /\ page.sharing.calls = CallsFor(page.sharing.emails)
        /\ \A k \in 1..Len(page.sharing.emails) :
              Resolves(page.sharing.emails[k]) =>
                  SharedWithEmail(page.sharing.task, page.sharing.emails[k])

\* C23 (amended): when handleShareTask has finished, it has called shareTask
\* once per listed email, in list order, each with 'view', whatever the
\* calls before returned; if the signed-in user owns the task, every listed
\* email that resolves to a profile then has a share row on the task, and
\* if not, the task has no share row granted by that user.
C23_OwnerSharesEveryResolvedEmail ==
    page.sharing.pc = "done" =>
        /\ page.sharing.calls = CallsFor(page.sharing.emails)
        /\ IF IsOwner(page.sharing.caller, page.sharing.task)
           THEN \A k \in 1..Len(page.sharing.emails) :
                    Resolves(page.sharing.emails[k]) =>
                        SharedWithEmail(page.sharing.task, page.sharing.emails[k])
           ELSE \A s \in ShareRows :
                    s.task_id = page.sharing.task =>
                        s.shared_by_user_id # page.sharing.caller

\* The owner's loop is over a list whose first email failed (no profile) and
\* whose second email was shared by the loop's own insert.
C23_Witness ==
    /\ page.sharing.pc = "done"
    /\ IsOwner(page.sharing.caller, page.sharing.task)
    /\ Len(page.sharing.emails) = 2
    /\ ~Resolves(page.sharing.emails[1])
    /\ Resolves(page.sharing.emails[2])
    /\ lastOp.op = "shareTask.insert" /\ lastOp.outcome = "success"
    /\ lastOp.caller = page.sharing.caller

\* C24 (as claimed): a press of the status button of a card that shows
\* 'Mark Complete' whose update is applied leaves the task completed.
C24_MarkCompleteCompletes ==
    [][ (nops' # nops /\ lastOp'.op = "updateTask") =>
          \A i \in 1..Len(mem) :
              ( /\ StatusButtonLabel(mem[i].status) = "Mark Complete"
                /\ HandleStatusChange(i)
                /\ lastOp'.applied )
              => tasks'[mem[i].id].status = "completed"
      ]_vars

====
